---- MODULE Spec2Model ----
(***************************************************************************)
(* Learning progress and assessment engine of the Portuguese vocabulary    *)
(* trainer: the Dexie tables (services/database), the pinia stores         *)
(* (module, vocabulary, quiz, user) and the view handlers that drive them. *)
(*                                                                         *)
(* Every handler is one atomic action: the application awaits each storage *)
(* call before the next dependent step, and the handlers are modelled      *)
(* without overlap, except initializeDatabase in SpecInit.  Storage calls  *)
(* succeed, except in the actions that name the call that fails.  A query  *)
(* by field equality selects the records whose fields equal the given      *)
(* values.                                                                 *)
(***************************************************************************)
EXTENDS Integers, Sequences, FiniteSets, TLC

\* ------------------------------------------------------------------------
\* Bounds
\* ------------------------------------------------------------------------
MaxVocab == 3          \* vocabulary items added one by one in Spec
MaxLessonWords == 4    \* largest module pool drawn in SpecLesson
MaxWords == 40         \* largest module pool drawn in SpecProgress
MaxOther == 1          \* items of the other module in a drawn pool
MaxPool == 10          \* largest module pool drawn in SpecQuiz
MaxRandom == 2         \* rotations the random comparator sort may produce
MaxGenerations == 2    \* quiz generations that store questions, per run
MaxElapsed == 3        \* days the clock advances from a start day
MaxQuestions == 10     \* most questions of a quiz drawn in SpecSession
MaxReview == 12        \* largest vocabulary drawn in SpecReview
MaxReviewDay == 3      \* latest day a drawn word was reviewed on
MaxCallers == 2        \* pages of the application open on the same database
MaxCalls == 3          \* initializeDatabase calls started, per run
MaxResults == 3        \* answers submitted to the quiz store between resets
MaxAnswered == 2       \* leading questions of a quiz that answers are submitted for
MaxCards == 4          \* largest module pool drawn in SpecFlashcards

ModuleIds == {1, 2}         \* the modules the modules table is seeded with
Null == [null |-> TRUE]     \* null or undefined where a record is expected
NoDate == -1                \* an unset Date
NoError == "null"           \* error: null
NoAnswer == << >>           \* null where an answer text is expected

\* ------------------------------------------------------------------------
\* JavaScript numbers are IEEE-754 doubles.  A positive double is carried as
\* [hi, mid, lo, zeros]: the 53-bit significand hi * 2^35 + mid * 2^17 + lo
\* (mid < 2^18, lo < 2^17) scaled by 2^-(53 + zeros).  Exact for operands
\* below 2^13.
\* ------------------------------------------------------------------------
\* binary zeros between the point and the first 1 of l / t, for 0 < l < t
RECURSIVE LeadZeros(_, _)
LeadZeros(l, t) == IF 2 * l >= t THEN 0 ELSE 1 + LeadZeros(2 * l, t)

\* the significand plus one unit in the last place
Increment(x) ==
  IF x.lo + 1 < 2^17 THEN [x EXCEPT !.lo = @ + 1]
  ELSE IF x.mid + 1 < 2^18 THEN [x EXCEPT !.lo = 0, !.mid = @ + 1]
  ELSE [x EXCEPT !.lo = 0, !.mid = 0, !.hi = @ + 1]

\* the double l / t, for 0 < l < t: long division to 53 bits, rounded to
\* nearest, ties to even
DoubleDiv(l, t) ==
  LET z  == LeadZeros(l, t)
      n  == l * 2^z
      q1 == (n * 2^18) \div t
      r1 == (n * 2^18) % t
      q2 == (r1 * 2^18) \div t
      r2 == (r1 * 2^18) % t
      q3 == (r2 * 2^17) \div t
      r3 == (r2 * 2^17) % t
      x  == [hi |-> q1, mid |-> q2, lo |-> q3, zeros |-> z]
  IN  IF 2 * r3 > t \/ (2 * r3 = t /\ q3 % 2 = 1) THEN Increment(x) ELSE x

\* the double x * 100: the exact product has 59 or 60 bits, of which the low
\* d = 6 or 7 are rounded away (nearest, ties to even); the result keeps the
\* scale of x, its hi part running to 25 bits
DoubleTimes100(x) ==
  LET c3  == 100 * x.lo
      c2  == 100 * x.mid + c3 \div 2^17
      p1  == 100 * x.hi + c2 \div 2^18
      p2  == c2 % 2^18
      p3  == c3 % 2^17
      d   == IF p1 >= 2^24 THEN 7 ELSE 6
      low == p3 % 2^d
      q   == p3 \div 2^d
      up  == low > 2^(d - 1) \/ (low = 2^(d - 1) /\ q % 2 = 1)
      y   == [hi |-> p1, mid |-> p2, lo |-> q * 2^d, zeros |-> x.zeros]
  IN  IF ~up THEN y
      ELSE IF (q + 1) * 2^d < 2^17 THEN [y EXCEPT !.lo = (q + 1) * 2^d]
      ELSE IF p2 + 1 < 2^18 THEN [y EXCEPT !.lo = 0, !.mid = p2 + 1]
      ELSE [y EXCEPT !.lo = 0, !.mid = 0, !.hi = p1 + 1]

\* Math.round(y) = floor(y + 1/2) = (floor(2 * y) + 1) div 2
MathRound(y) == ((y.hi \div 2^(17 + y.zeros)) + 1) \div 2

\* Math.round((learnedWords / totalWords) * 100), 0 <= learnedWords <= totalWords
RoundedPercent(learnedWords, totalWords) ==
  IF learnedWords = 0 THEN 0
  ELSE IF learnedWords = totalWords THEN 100
  ELSE MathRound(DoubleTimes100(DoubleDiv(learnedWords, totalWords)))

\* ------------------------------------------------------------------------
\* State
\* ------------------------------------------------------------------------
VARIABLES
  dbVocabulary,             \* table vocabulary: the record with id i is at index i
  dbModules,                \* table modules: id -> record
  dbUserProgress,           \* table userProgress, in id order
  dbQuizzes,                \* table quizzes, in id order
  nextQuizId,               \* next auto-increment key of quizzes
  modules,                  \* moduleStore.modules
  vocabularyItems,          \* vocabularyStore.vocabularyItems
  currentModuleVocabulary,  \* vocabularyStore.currentModuleVocabulary
  progress,                 \* userStore.progress
  quizzes,                  \* quizStore.quizzes
  quizError,                \* quizStore.error
  currentQuizIndex,         \* quizStore.currentQuizIndex
  quizResults,              \* quizStore.quizResults
  quizModuleId,             \* Quiz view: moduleId, 0 when not mounted
  quiz,                     \* Quiz view: quiz, Null when none is loaded
  currentQuestionIndex,     \* Quiz view: currentQuestionIndex (0-based)
  selectedAnswer,           \* Quiz view: selectedAnswer, NoAnswer for null
  isAnswerCorrect,          \* Quiz view: isAnswerCorrect
  hasAnswered,              \* Quiz view: hasAnswered
  results,                  \* Quiz view: results
  lessonModuleId,           \* LessonDetail: route module id, 0 when not mounted
  activeWordIndex,          \* LessonDetail: activeWordIndex (0-based)
  flashcardVocabulary,      \* Flashcards view: vocabulary
  reviewSession,            \* Flashcards view: reviewSession
  initCalls,                \* initializeDatabase calls in progress, per caller
  today,                    \* the clock: the current day, counted from Epoch
  generations,              \* quiz generations that stored questions so far
  lastOp                    \* the operation that ran last, its argument and result

vars == <<dbVocabulary, dbModules, dbUserProgress, dbQuizzes, nextQuizId,
          modules, vocabularyItems, currentModuleVocabulary, progress,
          quizzes, quizError, currentQuizIndex, quizResults, quizModuleId,
          quiz, currentQuestionIndex, selectedAnswer, isAnswerCorrect,
          hasAnswered, results, lessonModuleId, activeWordIndex,
          flashcardVocabulary, reviewSession, initCalls, today, generations,
          lastOp>>

dbVars == <<dbVocabulary, dbModules, dbUserProgress, dbQuizzes, nextQuizId>>
quizVars == <<dbQuizzes, nextQuizId, quizzes, quizError, currentQuizIndex,
              quizResults, generations>>
quizViewVars == <<quizModuleId, quiz, currentQuestionIndex, selectedAnswer,
                  isAnswerCorrect, hasAnswered, results>>
lessonVars == <<lessonModuleId, activeWordIndex>>
flashcardVars == <<flashcardVocabulary, reviewSession>>
restVars == <<initCalls, flashcardVars>>

\* an operation, its argument, what the caller got back, and the storage
\* call that failed during it ("none" when every storage call succeeded)
OpFailing(name, arg, result, failing) ==
  [op |-> name, arg |-> arg, result |-> result, failing |-> failing]
Op(name, arg, result) == OpFailing(name, arg, result, "none")
NoOp == Op("none", 0, "none")

\* ------------------------------------------------------------------------
\* services/database
\* ------------------------------------------------------------------------
\* the k-th Portuguese word and the k-th French word
Pt(k) == <<"pt", k>>
Fr(k) == <<"fr", k>>

\* interface Vocabulary (the fields the engine reads or writes); a record is
\* created without lastReviewed
Vocabulary(id, moduleId, portuguese, french, learned) ==
  [id |-> id, moduleId |-> moduleId, portuguese |-> portuguese,
   french |-> french, learned |-> learned, lastReviewed |-> NoDate]

\* interface Module (the fields the engine reads or writes)
Module(p, c, w) == [progress |-> p, completed |-> c, wordCount |-> w]

\* db.modules.toArray()
ModulesToArray(mods) ==
  [i \in 1..Cardinality(ModuleIds) |->
     [id |-> i, progress |-> mods[i].progress,
      completed |-> mods[i].completed, wordCount |-> mods[i].wordCount]]

\* markWordAsLearned(id): update of an absent key changes nothing
MarkWordAsLearned(vocab, id) ==
  IF id \in DOMAIN vocab
  THEN [vocab EXCEPT ![id].learned = TRUE, ![id].lastReviewed = today]
  ELSE vocab

\* updateModuleProgress with completed decided by the counts instead of by
\* the rounded progress
UpdateModuleProgress_CompletedByCount(mods, vocab, moduleId) ==
  LET InModule(item) == item.moduleId = moduleId
      LearnedInModule(item) == item.moduleId = moduleId /\ item.learned = TRUE
      totalWords == Len(SelectSeq(vocab, InModule))
      learnedWords == Len(SelectSeq(vocab, LearnedInModule))
      p == IF totalWords > 0 THEN RoundedPercent(learnedWords, totalWords) ELSE 0
      completed == (learnedWords = totalWords)
  IN  IF moduleId \in DOMAIN mods
      THEN [mods EXCEPT ![moduleId].progress = p, ![moduleId].completed = completed]
      ELSE mods

\* updateModuleProgress(moduleId): the modules table after the call
UpdateModuleProgress(mods, vocab, moduleId) ==
  LET InModule(item) == item.moduleId = moduleId
      LearnedInModule(item) == item.moduleId = moduleId /\ item.learned = TRUE
      totalWords == Len(SelectSeq(vocab, InModule))
      learnedWords == Len(SelectSeq(vocab, LearnedInModule))
      p == IF totalWords > 0 THEN RoundedPercent(learnedWords, totalWords) ELSE 0
      completed == (p = 100)
  IN  IF moduleId \in DOMAIN mods
      THEN [mods EXCEPT ![moduleId].progress = p, ![moduleId].completed = completed]
      ELSE mods

\* ------------------------------------------------------------------------
\* Dates: a Date is the number of days since Epoch; getFullYear, getMonth
\* (0-based) and getDate are the components of DateOf.
\* ------------------------------------------------------------------------
Epoch == [year |-> 2023, month |-> 11, date |-> 30]
\* 30 December 2023, 27 February 2024, 29 April 2024, 27 February 2025
StartDays == {0, 59, 121, 425}

IsLeapYear(y) == (y % 4 = 0 /\ y % 100 # 0) \/ y % 400 = 0

DaysInMonth(y, m) ==
  IF m = 1 THEN (IF IsLeapYear(y) THEN 29 ELSE 28)
  ELSE IF m \in {3, 5, 8, 10} THEN 30 ELSE 31

\* the date k days after the first day of month m of year y
RECURSIVE DateFrom(_, _, _)
DateFrom(y, m, k) ==
  IF k < DaysInMonth(y, m) THEN [year |-> y, month |-> m, date |-> k + 1]
  ELSE IF m < 11 THEN DateFrom(y, m + 1, k - DaysInMonth(y, m))
  ELSE DateFrom(y + 1, 0, k - DaysInMonth(y, m))

DateOf(d) == DateFrom(Epoch.year, Epoch.month, d + Epoch.date - 1)

\* setDate without the roll-over into the previous month
SetDate_NoRollover(c, n) == [c EXCEPT !.date = n]

\* Date.prototype.setDate(n) for 0 <= n <= days of the month: day 0 is the
\* last day of the previous month
SetDate(c, n) ==
  IF n >= 1 THEN [c EXCEPT !.date = n]
  ELSE IF c.month > 0
       THEN [year |-> c.year, month |-> c.month - 1,
             date |-> DaysInMonth(c.year, c.month - 1)]
       ELSE [year |-> c.year - 1, month |-> 11, date |-> 31]

\* interface UserProgress
UserProgress(totalLearned, streakDays, lastStudyDate) ==
  [totalLearned |-> totalLearned, totalReviewed |-> 0, totalStudyTime |-> 0,
   streakDays |-> streakDays, lastStudyDate |-> lastStudyDate]

\* initializeDatabase(): the userProgress table after the call
InitializeDatabase(table) ==
  IF Len(table) = 0 THEN Append(table, UserProgress(0, 0, NoDate)) ELSE table

\* the count is taken over the first module only
TotalLearned_FirstModule(vocab) ==
  LET Learned(item) == item.learned = TRUE /\ item.moduleId = 1
  IN  Len(SelectSeq(vocab, Learned))

\* db.vocabulary.where('learned').equals(true).count()
TotalLearned(vocab) ==
  LET Learned(item) == item.learned = TRUE
  IN  Len(SelectSeq(vocab, Learned))

\* updateUserProgress(): the userProgress table after the call
UserProgressUpdated(table, vocab) ==
  IF Len(table) > 0
  THEN [table EXCEPT ![1].totalLearned = TotalLearned(vocab)]
  ELSE table

\* incrementStreakDays that restarts the streak after a gap
IncrementStreakDays_ResetOnGap(table, now) ==
  IF Len(table) > 0
  THEN LET p == table[1]
       IN  IF p.lastStudyDate # NoDate /\ p.lastStudyDate = now - 1
           THEN [table EXCEPT ![1].streakDays = p.streakDays + 1,
                              ![1].lastStudyDate = now]
           ELSE IF p.lastStudyDate # NoDate /\ p.lastStudyDate < now - 1
           THEN [table EXCEPT ![1].streakDays = 0, ![1].lastStudyDate = now]
           ELSE [table EXCEPT ![1].lastStudyDate = now]
  ELSE table

\* incrementStreakDays(): the userProgress table after the call
IncrementStreakDays(table, now) ==
  IF Len(table) > 0
  THEN LET p == table[1]
           lastStudyDate == IF p.lastStudyDate # NoDate THEN DateOf(p.lastStudyDate) ELSE Null
           yesterday == SetDate(DateOf(now), DateOf(now).date - 1)
           isLastStudyYesterday ==
             /\ lastStudyDate # Null
             /\ lastStudyDate.date = yesterday.date
             /\ lastStudyDate.month = yesterday.month
             /\ lastStudyDate.year = yesterday.year
       IN  IF isLastStudyYesterday
           THEN [table EXCEPT ![1].streakDays = p.streakDays + 1,
                              ![1].lastStudyDate = now]
           ELSE [table EXCEPT ![1].lastStudyDate = now]
  ELSE table

\* ------------------------------------------------------------------------
\* stores
\* ------------------------------------------------------------------------
\* Array.prototype.findIndex by id, 1-based; 0 stands for -1
FindIndex(seq, id) ==
  IF \E i \in 1..Len(seq) : seq[i].id = id
  THEN CHOOSE i \in 1..Len(seq) :
         seq[i].id = id /\ \A j \in 1..(i - 1) : seq[j].id # id
  ELSE 0

\* { ...record, ...data }
Merge(record, data) ==
  [f \in DOMAIN record |-> IF f \in DOMAIN data THEN data[f] ELSE record[f]]

\* moduleStore.getModuleById(id)
GetModuleById(store, id) ==
  IF FindIndex(store, id) # 0 THEN store[FindIndex(store, id)] ELSE Null

\* moduleStore.updateModule(id, data): [db, store] after the call
UpdateModule(mods, store, id, data) ==
  LET index == FindIndex(store, id)
  IN  [db    |-> IF id \in DOMAIN mods THEN [mods EXCEPT ![id] = Merge(@, data)] ELSE mods,
       store |-> IF index # 0 THEN [store EXCEPT ![index] = Merge(@, data)] ELSE store]

\* userStore.fetchUserProgress(): the new userStore.progress
FetchUserProgress(table) == IF Len(table) > 0 THEN table[1] ELSE Null

\* db.vocabulary.where('moduleId').equals(moduleId).toArray()
VocabularyOfModule(vocab, moduleId) ==
  LET InModule(item) == item.moduleId = moduleId
  IN  SelectSeq(vocab, InModule)

\* vocabularyStore.markAsLearned(id) when the storage call `failing` rejects
\* ("none": every call succeeds): the state after the call and its result.
\* moduleStore.updateProgress, fetchModules and fetchUserProgress catch their
\* own errors, so markAsLearned goes on after a failure inside them.
MarkAsLearnedFailing(id, failing) ==
  LET vocab == MarkWordAsLearned(dbVocabulary, id)
      index == FindIndex(vocabularyItems, id)
      items == IF index # 0
               THEN [vocabularyItems EXCEPT ![index].learned = TRUE,
                                            ![index].lastReviewed = today]
               ELSE vocabularyItems
  IN  IF failing = "markWordAsLearned"
      THEN \* the rejection is caught: return false
           [dbVocabulary |-> dbVocabulary, vocabularyItems |-> vocabularyItems,
            dbModules |-> dbModules, modules |-> modules,
            progress |-> progress, result |-> "false"]
      ELSE IF index = 0
      THEN \* this.vocabularyItems[-1] is undefined: the TypeError is caught
           [dbVocabulary |-> vocab, vocabularyItems |-> items,
            dbModules |-> dbModules, modules |-> modules,
            progress |-> progress, result |-> "false"]
      ELSE LET mods == IF failing = "updateModuleProgress" THEN dbModules
                       ELSE UpdateModuleProgress(dbModules, vocab, items[index].moduleId)
           IN  [dbVocabulary |-> vocab, vocabularyItems |-> items,
                dbModules |-> mods,
                modules |-> IF failing \in {"updateModuleProgress", "fetchModules"}
                            THEN modules ELSE ModulesToArray(mods),
                progress |-> IF failing = "fetchUserProgress" THEN progress
                             ELSE FetchUserProgress(dbUserProgress),
                result |-> "true"]

\* vocabularyStore.markAsLearned(id): the state after the call and its result
MarkAsLearned(id) == MarkAsLearnedFailing(id, "none")

\* Quiz.vue, results: { score, total, correctAnswers, incorrectAnswers, completed }
Results(score, total, correctAnswers, incorrectAnswers, completed) ==
  [score |-> score, total |-> total, correctAnswers |-> correctAnswers,
   incorrectAnswers |-> incorrectAnswers, completed |-> completed]

\* Quiz.vue, State: the refs as they are created
QuizViewUnmounted ==
  /\ quizModuleId = 0
  /\ quiz = Null
  /\ currentQuestionIndex = 0
  /\ selectedAnswer = NoAnswer
  /\ isAnswerCorrect = FALSE
  /\ hasAnswered = FALSE
  /\ results = Results(0, 0, 0, 0, FALSE)

\* Flashcards view, reviewSession: { total, correct, incorrect, remaining,
\* completed }
ReviewSession(total) ==
  [total |-> total, correct |-> 0, incorrect |-> 0, remaining |-> total,
   completed |-> FALSE]

\* Flashcards view, State variables: the refs as they are created
FlashcardsUnmounted ==
  /\ flashcardVocabulary = << >>
  /\ reviewSession = ReviewSession(0)

\* the pages that may run initializeDatabase on the one database
Callers == 1..MaxCallers

\* no initializeDatabase call in progress
NoCalls == [c \in Callers |-> [pc |-> "idle", userProgressCount |-> 0, calls |-> 0]]

\* ------------------------------------------------------------------------
\* Operations
\* ------------------------------------------------------------------------
\* page load: the stores start from their initial state, then App.vue
\* onMounted runs initializeDatabase, fetchUserProgress and fetchModules
AppMounted ==
  /\ dbUserProgress' = InitializeDatabase(dbUserProgress)
  /\ progress' = FetchUserProgress(dbUserProgress')
  /\ modules' = ModulesToArray(dbModules)
  /\ vocabularyItems' = << >>
  /\ currentModuleVocabulary' = << >>
  /\ quizzes' = << >>
  /\ quizError' = NoError
  /\ currentQuizIndex' = 0
  /\ quizResults' = << >>
  /\ quizModuleId' = 0
  /\ quiz' = Null
  /\ currentQuestionIndex' = 0
  /\ selectedAnswer' = NoAnswer
  /\ isAnswerCorrect' = FALSE
  /\ hasAnswered' = FALSE
  /\ results' = Results(0, 0, 0, 0, FALSE)
  /\ lessonModuleId' = 0
  /\ activeWordIndex' = 0
  /\ flashcardVocabulary' = << >>
  /\ reviewSession' = ReviewSession(0)
  /\ lastOp' = Op("appMounted", 0, "none")
  /\ UNCHANGED <<dbVocabulary, dbModules, dbQuizzes, nextQuizId, generations, today,
                 initCalls>>

\* initializeDatabase(), up to its first await: a page asks the table for its
\* record count
InitializeDatabaseCount(caller) ==
  /\ initCalls[caller].pc = "idle"
  /\ initCalls[caller].calls < MaxCalls
  /\ initCalls' = [initCalls EXCEPT ![caller] =
                     [pc |-> "counted", userProgressCount |-> Len(dbUserProgress),
                      calls |-> @.calls + 1]]
  /\ lastOp' = Op("initializeDatabase", caller, "count")
  /\ UNCHANGED <<dbVocabulary, dbModules, dbUserProgress, modules, vocabularyItems,
                 currentModuleVocabulary, progress, today>>
  /\ UNCHANGED quizVars /\ UNCHANGED quizViewVars /\ UNCHANGED lessonVars
  /\ UNCHANGED flashcardVars

\* initializeDatabase(), from the count to the end: the default record is
\* added when the count that came back was 0
InitializeDatabaseAdd(caller) ==
  /\ initCalls[caller].pc = "counted"
  /\ dbUserProgress' = IF initCalls[caller].userProgressCount = 0
                       THEN Append(dbUserProgress, UserProgress(0, 0, NoDate))
                       ELSE dbUserProgress
  /\ initCalls' = [initCalls EXCEPT ![caller].pc = "idle"]
  /\ lastOp' = Op("initializeDatabase", caller, "done")
  /\ UNCHANGED <<dbVocabulary, dbModules, modules, vocabularyItems,
                 currentModuleVocabulary, progress, today>>
  /\ UNCHANGED quizVars /\ UNCHANGED quizViewVars /\ UNCHANGED lessonVars
  /\ UNCHANGED flashcardVars

\* updateUserProgress(), the reconciliation pass of the database service
UpdateUserProgress ==
  /\ dbUserProgress' = UserProgressUpdated(dbUserProgress, dbVocabulary)
  /\ lastOp' = Op("updateUserProgress", 0, "none")
  /\ UNCHANGED <<dbVocabulary, dbModules, modules, vocabularyItems,
                 currentModuleVocabulary, progress, today>>
  /\ UNCHANGED quizVars /\ UNCHANGED quizViewVars /\ UNCHANGED lessonVars
  /\ UNCHANGED restVars

\* the lastStudyDate a streak update finds in the table
StoredLastStudyDate ==
  IF Len(dbUserProgress) > 0 THEN dbUserProgress[1].lastStudyDate ELSE NoDate

\* userStore.updateStreak(): incrementStreakDays, then fetchUserProgress
UpdateStreak ==
  /\ dbUserProgress' = IncrementStreakDays(dbUserProgress, today)
  /\ progress' = FetchUserProgress(dbUserProgress')
  /\ lastOp' = Op("updateStreak", StoredLastStudyDate, "none")
  /\ UNCHANGED <<dbVocabulary, dbModules, modules, vocabularyItems,
                 currentModuleVocabulary, today>>
  /\ UNCHANGED quizVars /\ UNCHANGED quizViewVars /\ UNCHANGED lessonVars /\ UNCHANGED restVars

\* Dashboard.vue onMounted: updateStreak, fetchAllVocabulary
DashboardMounted ==
  /\ dbUserProgress' = IncrementStreakDays(dbUserProgress, today)
  /\ progress' = FetchUserProgress(dbUserProgress')
  /\ vocabularyItems' = dbVocabulary
  /\ lastOp' = Op("dashboardMounted", StoredLastStudyDate, "none")
  /\ UNCHANGED <<dbVocabulary, dbModules, modules, currentModuleVocabulary, today>>
  /\ UNCHANGED quizVars /\ UNCHANGED quizViewVars /\ UNCHANGED lessonVars /\ UNCHANGED restVars

\* the calendar day changes
Tick ==
  /\ \E s \in StartDays : s <= today /\ today < s + MaxElapsed
  /\ today' = today + 1
  /\ lastOp' = Op("tick", 0, "none")
  /\ UNCHANGED <<dbVocabulary, dbModules, dbUserProgress, modules, vocabularyItems,
                 currentModuleVocabulary, progress>>
  /\ UNCHANGED quizVars /\ UNCHANGED quizViewVars /\ UNCHANGED lessonVars /\ UNCHANGED restVars

\* vocabularyStore.addVocabularyItem(item)
AddVocabularyItem(moduleId, portuguese, french) ==
  LET id == Len(dbVocabulary) + 1
      item == Vocabulary(id, moduleId, portuguese, french, FALSE)
      module == GetModuleById(modules, moduleId)
      updated == IF module # Null
                 THEN UpdateModule(dbModules, modules, moduleId,
                                   [wordCount |-> module.wordCount + 1])
                 ELSE [db |-> dbModules, store |-> modules]
  IN  /\ Len(dbVocabulary) < MaxVocab
      /\ dbVocabulary' = Append(dbVocabulary, item)
      /\ vocabularyItems' = Append(vocabularyItems, item)
      /\ dbModules' = updated.db
      /\ modules' = updated.store
      /\ lastOp' = Op("addVocabularyItem", moduleId, "id")
      /\ UNCHANGED <<dbUserProgress, currentModuleVocabulary, progress, today>>
      /\ UNCHANGED quizVars /\ UNCHANGED quizViewVars /\ UNCHANGED lessonVars /\ UNCHANGED restVars

\* moduleStore.updateProgress(moduleId): updateModuleProgress, then fetchModules
UpdateProgress(moduleId) ==
  /\ dbModules' = UpdateModuleProgress(dbModules, dbVocabulary, moduleId)
  /\ modules' = ModulesToArray(dbModules')
  /\ lastOp' = Op("updateProgress", moduleId, "true")
  /\ UNCHANGED <<dbVocabulary, dbUserProgress, vocabularyItems,
                 currentModuleVocabulary, progress, today>>
  /\ UNCHANGED quizVars /\ UNCHANGED quizViewVars /\ UNCHANGED lessonVars /\ UNCHANGED restVars

\* quizStore.completeQuiz(moduleId, score)
CompleteQuiz(moduleId, score) ==
  LET module == GetModuleById(modules, moduleId)
      updated == IF module # Null /\ score >= 70
                 THEN UpdateModule(dbModules, modules, moduleId,
                                   [completed |-> TRUE, progress |-> 100])
                 ELSE [db |-> dbModules, store |-> modules]
  IN  /\ dbModules' = updated.db
      /\ modules' = updated.store
      /\ lastOp' = Op("completeQuiz", moduleId, "none")
      /\ UNCHANGED <<dbVocabulary, dbUserProgress, vocabularyItems,
                     currentModuleVocabulary, progress, today>>
      /\ UNCHANGED quizVars /\ UNCHANGED quizViewVars /\ UNCHANGED lessonVars /\ UNCHANGED restVars

\* LessonDetail.vue onMounted: fetchModuleById, fetchVocabularyByModule
LessonMounted(moduleId) ==
  /\ lessonModuleId' = moduleId
  /\ activeWordIndex' = 0
  /\ currentModuleVocabulary' = VocabularyOfModule(dbVocabulary, moduleId)
  /\ lastOp' = Op("lessonMounted", moduleId, "none")
  /\ UNCHANGED <<dbVocabulary, dbModules, dbUserProgress, modules, vocabularyItems,
                 progress, today>>
  /\ UNCHANGED quizVars /\ UNCHANGED quizViewVars /\ UNCHANGED restVars

\* LessonDetail.vue: click on a word of the list (activeWordIndex = index)
SelectWord(index) ==
  /\ lessonModuleId # 0
  /\ index \in 0..(Len(currentModuleVocabulary) - 1)
  /\ index # activeWordIndex
  /\ activeWordIndex' = index
  /\ lastOp' = Op("selectWord", index, "none")
  /\ UNCHANGED <<dbVocabulary, dbModules, dbUserProgress, modules, vocabularyItems,
                 currentModuleVocabulary, progress, today, lessonModuleId>>
  /\ UNCHANGED quizVars /\ UNCHANGED quizViewVars /\ UNCHANGED restVars

\* LessonDetail.vue markAsLearned(currentWord.id); the button is rendered
\* while the displayed word is not learned
LessonMarkAsLearned ==
  /\ lessonModuleId # 0
  /\ activeWordIndex < Len(currentModuleVocabulary)
  /\ ~currentModuleVocabulary[activeWordIndex + 1].learned
  /\ LET wordId == currentModuleVocabulary[activeWordIndex + 1].id
         r == MarkAsLearned(wordId)
         hasNextWord == activeWordIndex < Len(currentModuleVocabulary) - 1
         mods == UpdateModuleProgress(r.dbModules, r.dbVocabulary, lessonModuleId)
     IN  /\ dbVocabulary' = r.dbVocabulary
         /\ vocabularyItems' = r.vocabularyItems
         /\ progress' = r.progress
         /\ IF ~hasNextWord
            THEN /\ dbModules' = mods
                 /\ modules' = ModulesToArray(mods)
                 /\ activeWordIndex' = activeWordIndex
            ELSE /\ dbModules' = r.dbModules
                 /\ modules' = r.modules
                 /\ activeWordIndex' = activeWordIndex + 1
         /\ lastOp' = Op("markAsLearned", wordId, r.result)
  /\ UNCHANGED <<dbUserProgress, currentModuleVocabulary, today, lessonModuleId>>
  /\ UNCHANGED quizVars /\ UNCHANGED quizViewVars /\ UNCHANGED restVars

\* vocabularyStore.markAsLearned(id), called on its own
StoreMarkAsLearned(id) ==
  LET r == MarkAsLearned(id)
  IN  /\ dbVocabulary' = r.dbVocabulary
      /\ vocabularyItems' = r.vocabularyItems
      /\ dbModules' = r.dbModules
      /\ modules' = r.modules
      /\ progress' = r.progress
      /\ lastOp' = Op("markAsLearned", id, r.result)
      /\ UNCHANGED <<dbUserProgress, currentModuleVocabulary, today>>
      /\ UNCHANGED quizVars /\ UNCHANGED quizViewVars /\ UNCHANGED lessonVars /\ UNCHANGED restVars

\* vocabularyStore.markAsLearned(id) while a storage call fails
StoreMarkAsLearnedFailing(id, failing) ==
  LET r == MarkAsLearnedFailing(id, failing)
  IN  /\ dbVocabulary' = r.dbVocabulary
      /\ vocabularyItems' = r.vocabularyItems
      /\ dbModules' = r.dbModules
      /\ modules' = r.modules
      /\ progress' = r.progress
      /\ lastOp' = OpFailing("markAsLearned", id, r.result, failing)
      /\ UNCHANGED <<dbUserProgress, currentModuleVocabulary, today>>
      /\ UNCHANGED quizVars /\ UNCHANGED quizViewVars /\ UNCHANGED lessonVars /\ UNCHANGED restVars

\* moduleStore.updateProgress(moduleId) while a storage call fails: a
\* rejection of updateModuleProgress is caught (return false); fetchModules
\* catches its own error and leaves the list as it was (return true)
UpdateProgressFailing(moduleId, failing) ==
  /\ IF failing = "updateModuleProgress"
     THEN /\ UNCHANGED dbModules
          /\ lastOp' = OpFailing("updateProgress", moduleId, "false", failing)
     ELSE /\ dbModules' = UpdateModuleProgress(dbModules, dbVocabulary, moduleId)
          /\ lastOp' = OpFailing("updateProgress", moduleId, "true", failing)
  /\ UNCHANGED <<dbVocabulary, dbUserProgress, modules, vocabularyItems,
                 currentModuleVocabulary, progress, today>>
  /\ UNCHANGED quizVars /\ UNCHANGED quizViewVars /\ UNCHANGED lessonVars /\ UNCHANGED restVars

\* moduleStore.updateModule(id, data) while db.modules.update fails: the
\* rejection is caught, the list is not touched (return false)
UpdateModuleFailing(id) ==
  /\ lastOp' = OpFailing("updateModule", id, "false", "update")
  /\ UNCHANGED <<dbVocabulary, dbModules, dbUserProgress, modules, vocabularyItems,
                 currentModuleVocabulary, progress, today>>
  /\ UNCHANGED quizVars /\ UNCHANGED quizViewVars /\ UNCHANGED lessonVars /\ UNCHANGED restVars

Min(a, b) == IF a < b THEN a ELSE b

\* Array.prototype.slice(from, to), 0-based
Slice(seq, from, to) == SubSeq(seq, from + 1, Min(to, Len(seq)))

Rotate(seq, k) ==
  [i \in 1..Len(seq) |-> seq[((i - 1 + k) % Len(seq)) + 1]]

Reverse(seq) == [i \in 1..Len(seq) |-> seq[Len(seq) + 1 - i]]

\* what Math.random() decides in one call of the generator: a rotation and
\* whether the order is reversed
RandomDraws == (0..(MaxRandom - 1)) \X BOOLEAN

\* .sort(() => 0.5 - Math.random()) in the i-th round of a loop: some
\* permutation of seq, drawn among the rotations and their reversals
RandomSort(seq, draw, i) ==
  IF Len(seq) = 0 THEN seq
  ELSE IF draw[2] THEN Reverse(Rotate(seq, draw[1] + i))
  ELSE Rotate(seq, draw[1] + i)

\* vocabulary.length < 4
NotEnoughVocabulary_Three(vocabulary) == Len(vocabulary) < 3

NotEnoughVocabulary(vocabulary) == Len(vocabulary) < 4

\* Math.min(vocabulary.length, 5), one round short
MultipleChoiceCount_OneShort(vocabulary) == Min(Len(vocabulary), 5) - 1

\* Math.min(vocabulary.length, 5)
MultipleChoiceCount(vocabulary) == Min(Len(vocabulary), 5)

\* the multiple-choice question of round i (0-based)
MultipleChoiceQuestion(moduleId, vocabulary, i, draw1, draw2) ==
  LET correctItem == vocabulary[i + 1]
      Other(item) == item.id # correctItem.id
      sorted == RandomSort(SelectSeq(vocabulary, Other), draw1, i)
      picked == Slice(sorted, 0, 3)
      incorrectOptions == [j \in 1..Len(picked) |-> picked[j].french]
      options == RandomSort(Append(incorrectOptions, correctItem.french), draw2, i)
  IN  [moduleId |-> moduleId, type |-> "multiple-choice",
       question |-> <<"Traduisez", correctItem.portuguese>>,
       options |-> options, answer |-> correctItem.french, completed |-> FALSE]

\* i + 5 > vocabulary.length ? i : i + 5  (0-based index)
FillInBlankIndex(i, vocabulary) == IF i + 5 > Len(vocabulary) THEN i ELSE i + 5

\* i + 8 > vocabulary.length ? i : i + 8  (0-based index)
AudioIndex(i, vocabulary) == IF i + 8 > Len(vocabulary) THEN i ELSE i + 8

FillInBlankQuestion(moduleId, item) ==
  [moduleId |-> moduleId, type |-> "fill-in-blank",
   question |-> <<"Completez", item.french>>,
   answer |-> item.portuguese, completed |-> FALSE]

AudioQuestion(moduleId, item) ==
  [moduleId |-> moduleId, type |-> "audio",
   question |-> <<"Ecoutez et ecrivez", item.portuguese>>,
   answer |-> item.portuguese, completed |-> FALSE]

\* the loops read vocabulary[index] past the end: item is undefined and
\* item.french throws a TypeError
ReadsUndefinedItem(vocabulary) ==
  \/ \E i \in 0..(Min(Len(vocabulary), 3) - 1) :
       FillInBlankIndex(i, vocabulary) >= Len(vocabulary)
  \/ \E i \in 0..(Min(Len(vocabulary), 2) - 1) :
       AudioIndex(i, vocabulary) >= Len(vocabulary)

\* newQuizzes, when no loop throws
NewQuizzes(moduleId, vocabulary, draw1, draw2) ==
  [i \in 1..MultipleChoiceCount(vocabulary) |->
     MultipleChoiceQuestion(moduleId, vocabulary, i - 1, draw1, draw2)]
  \o [i \in 1..Min(Len(vocabulary), 3) |->
        FillInBlankQuestion(moduleId, vocabulary[FillInBlankIndex(i - 1, vocabulary) + 1])]
  \o [i \in 1..Min(Len(vocabulary), 2) |->
        AudioQuestion(moduleId, vocabulary[AudioIndex(i - 1, vocabulary) + 1])]

\* db.quizzes.where('moduleId').equals(moduleId).toArray()
QuizzesOfModule(table, moduleId) ==
  LET InModule(question) == question.moduleId = moduleId
  IN  SelectSeq(table, InModule)

\* the delete removes nothing: a regeneration merges
DeleteQuizzesOfModule_Merge(table, moduleId) == table

\* db.quizzes.where('moduleId').equals(moduleId).delete()
DeleteQuizzesOfModule(table, moduleId) ==
  LET NotInModule(question) == question.moduleId # moduleId
  IN  SelectSeq(table, NotInModule)

\* db.quizzes.bulkAdd(newQuizzes): each record gets the next key
BulkAdd(table, newQuizzes, firstId) ==
  table \o [i \in 1..Len(newQuizzes) |->
              [f \in DOMAIN newQuizzes[i] \cup {"id"} |->
                 IF f = "id" THEN firstId + i - 1 ELSE newQuizzes[i][f]]]

\* quizStore.generateQuizForModule(moduleId) when the storage call `failing`
\* rejects ("none": every call succeeds).  The delete is awaited outside any
\* try block; fetchVocabularyByModule and fetchQuizzesByModule catch their own
\* errors and leave their list as it was; the bulkAdd is inside the try block
\* of the generator.
GenerateQuizFailing(moduleId, failing) ==
  LET G == "generateQuizForModule"
      cleared == DeleteQuizzesOfModule(dbQuizzes, moduleId)
      vocabulary == IF failing = "fetchVocabularyByModule"
                    THEN currentModuleVocabulary
                    ELSE VocabularyOfModule(dbVocabulary, moduleId)
  IN  /\ generations < MaxGenerations
      /\ IF failing = "delete"
         THEN /\ lastOp' = OpFailing(G, moduleId, "StoreUnavailableError", failing)
              /\ UNCHANGED <<currentModuleVocabulary, dbQuizzes, nextQuizId, quizzes,
                             quizError, currentQuizIndex, quizResults, generations>>
         ELSE /\ currentModuleVocabulary' = vocabulary
              /\ IF NotEnoughVocabulary(vocabulary)
                 THEN /\ dbQuizzes' = cleared
                      /\ quizError' = "Not enough vocabulary items to generate a quiz"
                      /\ lastOp' = OpFailing(G, moduleId, "false", failing)
                      /\ UNCHANGED <<nextQuizId, quizzes, currentQuizIndex, quizResults,
                                     generations>>
                 ELSE IF ReadsUndefinedItem(vocabulary)
                 THEN /\ dbQuizzes' = cleared
                      /\ lastOp' = OpFailing(G, moduleId, "TypeError", failing)
                      /\ UNCHANGED <<nextQuizId, quizzes, quizError, currentQuizIndex,
                                     quizResults, generations>>
                 ELSE IF failing = "bulkAdd"
                 THEN /\ dbQuizzes' = cleared
                      /\ quizError' = "Failed to generate quizzes"
                      /\ lastOp' = OpFailing(G, moduleId, "false", failing)
                      /\ UNCHANGED <<nextQuizId, quizzes, currentQuizIndex, quizResults,
                                     generations>>
                 ELSE \E draw1 \in RandomDraws, draw2 \in RandomDraws :
                      LET newQuizzes == NewQuizzes(moduleId, vocabulary, draw1, draw2)
                      IN  /\ dbQuizzes' = BulkAdd(cleared, newQuizzes, nextQuizId)
                          /\ nextQuizId' = nextQuizId + Len(newQuizzes)
                          /\ IF failing = "fetchQuizzesByModule"
                             THEN /\ quizError' = "Failed to load quizzes"
                                  /\ UNCHANGED <<quizzes, currentQuizIndex, quizResults>>
                             ELSE /\ quizzes' = QuizzesOfModule(dbQuizzes', moduleId)
                                  /\ quizError' = NoError
                                  /\ currentQuizIndex' = 0
                                  /\ quizResults' = << >>
                          /\ generations' = generations + 1
                          /\ lastOp' = OpFailing(G, moduleId, "ids", failing)
      /\ UNCHANGED <<dbVocabulary, dbModules, dbUserProgress, modules,
                     vocabularyItems, progress, today>>
      /\ UNCHANGED lessonVars /\ UNCHANGED quizViewVars /\ UNCHANGED restVars

\* quizStore.generateQuizForModule(moduleId)
GenerateQuizForModule(moduleId) == GenerateQuizFailing(moduleId, "none")

\* ------------------------------------------------------------------------
\* review queue (vocabularyStore.getNextWordsToReview, Dashboard)
\* ------------------------------------------------------------------------
\* the comparator puts the items without lastReviewed last
CompareLastReviewed_UndatedLast(a, b) ==
  IF a.lastReviewed = NoDate THEN 1
  ELSE IF b.lastReviewed = NoDate THEN -1
  ELSE a.lastReviewed - b.lastReviewed

\* the comparator of getNextWordsToReview
CompareLastReviewed(a, b) ==
  IF a.lastReviewed = NoDate THEN -1
  ELSE IF b.lastReviewed = NoDate THEN 1
  ELSE a.lastReviewed - b.lastReviewed

\* Array.prototype.sort on a short array: the leading run is found (and
\* reversed when it descends), then the rest is inserted by binary search.
\* The comparator is not consistent between two items without lastReviewed,
\* so their mutual order is the sort's choice.
RECURSIVE CountRun(_, _, _)
CountRun(seq, descending, idx) ==
  IF idx > Len(seq) THEN Len(seq)
  ELSE LET order == CompareLastReviewed(seq[idx], seq[idx - 1])
       IN  IF descending
           THEN IF order >= 0 THEN idx - 1 ELSE CountRun(seq, descending, idx + 1)
           ELSE IF order < 0 THEN idx - 1 ELSE CountRun(seq, descending, idx + 1)

RECURSIVE BinarySearch(_, _, _, _)
BinarySearch(seq, pivot, left, right) ==
  IF left >= right THEN left
  ELSE LET mid == left + ((right - left) \div 2)
       IN  IF CompareLastReviewed(pivot, seq[mid + 1]) < 0
           THEN BinarySearch(seq, pivot, left, mid)
           ELSE BinarySearch(seq, pivot, mid + 1, right)

RECURSIVE BinaryInsertionSort(_, _)
BinaryInsertionSort(seq, start) ==
  IF start >= Len(seq) THEN seq
  ELSE LET pivot == seq[start + 1]
           pos == BinarySearch(seq, pivot, 0, start)
       IN  BinaryInsertionSort(SubSeq(seq, 1, pos) \o <<pivot>>
                                 \o SubSeq(seq, pos + 1, start)
                                 \o SubSeq(seq, start + 2, Len(seq)),
                               start + 1)

SortByLastReviewed(seq) ==
  IF Len(seq) < 2 THEN seq
  ELSE LET descending == CompareLastReviewed(seq[2], seq[1]) < 0
           run == CountRun(seq, descending, 3)
           made == IF descending
                   THEN Reverse(SubSeq(seq, 1, run)) \o SubSeq(seq, run + 1, Len(seq))
                   ELSE seq
       IN  BinaryInsertionSort(made, run)

\* the filter on learned is missing
GetNextWordsToReview_Unfiltered(items) ==
  Slice(SortByLastReviewed(items), 0, 10)

\* vocabularyStore.getNextWordsToReview
GetNextWordsToReview(items) ==
  LET Learned(item) == item.learned
  IN  Slice(SortByLastReviewed(SelectSeq(items, Learned)), 0, 10)

\* Dashboard.vue, wordsToReview
WordsToReview == Slice(GetNextWordsToReview(vocabularyItems), 0, 5)

\* ------------------------------------------------------------------------
\* quiz store session (getCurrentScore, isQuizComplete, resetQuiz,
\* nextQuestion, submitAnswer)
\* ------------------------------------------------------------------------
\* a text written in another letter case
Upper(text) == Append(text, "upper")

\* String.prototype.toLowerCase
ToLowerCase(text) == SubSeq(text, 1, 2)

\* quizStore.getCurrentScore
GetCurrentScore ==
  IF Len(quizResults) = 0 THEN 0
  ELSE LET Correct(result) == result.correct
       IN  RoundedPercent(Len(SelectSeq(quizResults, Correct)), Len(quizResults))

\* quizStore.isQuizComplete
IsQuizComplete == Len(quizResults) >= Len(quizzes)

\* quizStore.currentQuiz, as resetQuiz and nextQuestion set it: the question
\* at currentQuizIndex, null without questions
CurrentQuiz ==
  IF currentQuizIndex < Len(quizzes) THEN quizzes[currentQuizIndex + 1] ELSE Null

\* db.quizzes.update(questionId, { completed: true })
MarkQuestionCompleted(table, questionId) ==
  [i \in DOMAIN table |->
     IF table[i].id = questionId THEN [table[i] EXCEPT !.completed = TRUE] ELSE table[i]]

\* quizStore.resetQuiz()
ResetQuiz ==
  /\ currentQuizIndex' = 0
  /\ quizResults' = << >>
  /\ lastOp' = Op("resetQuiz", 0, "none")
  /\ UNCHANGED <<dbQuizzes, nextQuizId, quizzes, quizError, generations>>
  /\ UNCHANGED <<dbVocabulary, dbModules, dbUserProgress, modules, vocabularyItems,
                 currentModuleVocabulary, progress, today>>
  /\ UNCHANGED quizViewVars /\ UNCHANGED lessonVars /\ UNCHANGED restVars

\* quizStore.nextQuestion()
StoreNextQuestion ==
  /\ IF currentQuizIndex < Len(quizzes) - 1
     THEN /\ currentQuizIndex' = currentQuizIndex + 1
          /\ lastOp' = Op("storeNextQuestion", 0, "true")
     ELSE /\ UNCHANGED currentQuizIndex
          /\ lastOp' = Op("storeNextQuestion", 0, "false")
  /\ UNCHANGED <<dbQuizzes, nextQuizId, quizzes, quizError, quizResults, generations>>
  /\ UNCHANGED <<dbVocabulary, dbModules, dbUserProgress, modules, vocabularyItems,
                 currentModuleVocabulary, progress, today>>
  /\ UNCHANGED quizViewVars /\ UNCHANGED lessonVars /\ UNCHANGED restVars

\* quizStore.submitAnswer(questionId, answer)
SubmitAnswer(questionId, answer) ==
  LET index == FindIndex(quizzes, questionId)
  IN  /\ Len(quizResults) < MaxResults
      /\ IF index = 0
         THEN /\ lastOp' = Op("submitAnswer", questionId, "false")
              /\ UNCHANGED <<dbQuizzes, quizzes, quizResults>>
         ELSE LET isCorrect == ToLowerCase(answer) = ToLowerCase(quizzes[index].answer)
              IN  /\ quizResults' = Append(quizResults,
                                           [questionId |-> questionId, correct |-> isCorrect])
                  /\ IF isCorrect
                     THEN /\ dbQuizzes' = MarkQuestionCompleted(dbQuizzes, questionId)
                          /\ quizzes' = [quizzes EXCEPT ![index].completed = TRUE]
                     ELSE UNCHANGED <<dbQuizzes, quizzes>>
                  /\ lastOp' = Op("submitAnswer", questionId,
                                  IF isCorrect THEN "true" ELSE "false")
      /\ UNCHANGED <<nextQuizId, quizError, currentQuizIndex, generations>>
      /\ UNCHANGED <<dbVocabulary, dbModules, dbUserProgress, modules, vocabularyItems,
                     currentModuleVocabulary, progress, today>>
      /\ UNCHANGED quizViewVars /\ UNCHANGED lessonVars /\ UNCHANGED restVars

\* ------------------------------------------------------------------------
\* Flashcards view (second component of views/LessonDetail.vue)
\* ------------------------------------------------------------------------
\* the value of `await vocabularyStore.fetchVocabularyByModule(moduleId)`:
\* the store action fills currentModuleVocabulary and has no return
\* statement, so the value is undefined
FetchVocabularyByModuleValue == Null

\* the filter of the session: !word.learned || (word.nextReview && new
\* Date(word.nextReview) <= new Date()); a Vocabulary record has a nextReview
\* only if one was stored on it
NeedsReview(word) ==
  \/ ~word.learned
  \/ ("nextReview" \in DOMAIN word /\ word.nextReview <= today)

\* vocabulary with the elements at the 0-based positions i and j exchanged
Swap(list, i, j) ==
  [k \in DOMAIN list |->
     IF k = i + 1 THEN list[j + 1] ELSE IF k = j + 1 THEN list[i + 1] ELSE list[k]]

\* shuffleVocabulary from position i down to 1; picks[i] is
\* Math.floor(Math.random() * (i + 1))
RECURSIVE ShuffleVocabulary(_, _, _)
ShuffleVocabulary(list, picks, i) ==
  IF i <= 0 THEN list
  ELSE ShuffleVocabulary(Swap(list, i, picks[i]), picks, i - 1)

\* Flashcards onMounted for the module of the page: fetchModuleById,
\* fetchVocabularyByModule, then words.filter(...).  words is undefined, the
\* TypeError is caught by the handler, and vocabulary and reviewSession stay
\* as they were created.
FlashcardsMounted(moduleId) ==
  LET words == FetchVocabularyByModuleValue
  IN  /\ currentModuleVocabulary' = VocabularyOfModule(dbVocabulary, moduleId)
      /\ IF words = Null
         THEN /\ lastOp' = Op("flashcardsMounted", moduleId, "TypeError")
              /\ UNCHANGED flashcardVars
         ELSE LET eligible == SelectSeq(words, NeedsReview)
              IN  \E picks \in [1..(Len(eligible) - 1) -> 0..MaxCards] :
                    /\ \A i \in DOMAIN picks : picks[i] <= i
                    /\ reviewSession' = ReviewSession(Len(eligible))
                    /\ flashcardVocabulary'
                         = ShuffleVocabulary(eligible, picks, Len(eligible) - 1)
                    /\ lastOp' = Op("flashcardsMounted", moduleId, "none")
      /\ UNCHANGED <<dbVocabulary, dbModules, dbUserProgress, modules, vocabularyItems,
                     progress, today, initCalls>>
      /\ UNCHANGED quizVars /\ UNCHANGED quizViewVars /\ UNCHANGED lessonVars

\* ------------------------------------------------------------------------
\* views/Quiz
\* ------------------------------------------------------------------------
\* currentQuestion: quiz.questions[currentQuestionIndex]
CurrentQuestion ==
  IF quiz = Null THEN Null
  ELSE IF currentQuestionIndex >= Len(quiz.questions) THEN Null
  ELSE quiz.questions[currentQuestionIndex + 1]

\* v-for="(answer, index) in currentQuestion.answers": the answer buttons
OfferedAnswers ==
  IF CurrentQuestion = Null THEN {}
  ELSE {CurrentQuestion.answers[i] : i \in DOMAIN CurrentQuestion.answers}

\* the comparison reaches one question too far
IsLastQuestion_OffByOne ==
  IF quiz = Null THEN TRUE
  ELSE currentQuestionIndex = Len(quiz.questions)

\* isLastQuestion
IsLastQuestion ==
  IF quiz = Null THEN TRUE
  ELSE currentQuestionIndex = Len(quiz.questions) - 1

\* the once-only guard is missing
AlreadyAnswered_Never == FALSE

\* selectAnswer: if (hasAnswered.value) return
AlreadyAnswered == hasAnswered

\* the comparison ignores the letter case
IsCorrectAnswer_AnyCase(question, answer) ==
  ToLowerCase(question.correctAnswer) = ToLowerCase(answer)

\* selectAnswer: currentQuestion.value.correctAnswer === answer
IsCorrectAnswer(question, answer) == question.correctAnswer = answer

\* selectAnswer(answer), for an answer of the displayed question.  The last
\* statement calls quizStore.updateQuizProgress, which the quiz store does not
\* define: the call throws a TypeError after the refs were updated and
\* nothing is written to the store or the table.
SelectAnswer(answer) ==
  /\ CurrentQuestion # Null
  /\ ~results.completed
  /\ answer \in OfferedAnswers
  /\ IF AlreadyAnswered
     THEN /\ lastOp' = Op("selectAnswer", 0, "ignored")
          /\ UNCHANGED <<selectedAnswer, hasAnswered, isAnswerCorrect, results>>
     ELSE /\ selectedAnswer' = answer
          /\ hasAnswered' = TRUE
          /\ IF IsCorrectAnswer(CurrentQuestion, answer)
             THEN /\ isAnswerCorrect' = TRUE
                  /\ results' = [results EXCEPT !.correctAnswers = @ + 1,
                                                !.score = @ + 10]
             ELSE /\ isAnswerCorrect' = FALSE
                  /\ results' = [results EXCEPT !.incorrectAnswers = @ + 1]
          /\ lastOp' = Op("selectAnswer", 0, "TypeError")
  /\ UNCHANGED <<quizModuleId, quiz, currentQuestionIndex>>
  /\ UNCHANGED <<dbVocabulary, dbModules, dbUserProgress, modules, vocabularyItems,
                 currentModuleVocabulary, progress, today>>
  /\ UNCHANGED quizVars /\ UNCHANGED lessonVars /\ UNCHANGED restVars

\* the next button is rendered on every question, answered or not
NextButtonShown_Always == TRUE

\* <div v-if="hasAnswered" class="next-container">: the next button
NextButtonShown == hasAnswered

\* the percentage the results panel shows:
\* Math.round((results.correctAnswers / results.total) * 100)
ScorePercentage(r) == RoundedPercent(r.correctAnswers, r.total)

\* nextQuestion(); the button is rendered once the question was answered.
\* On the last question it runs completeQuiz(): results.completed = true,
\* quizStore.completeQuiz(quiz.id, results.score), then
\* moduleStore.updateProgress(moduleId), then userStore.updateQuizStats, which
\* the user store does not define (a TypeError, nothing is written).
NextQuestion ==
  /\ quiz # Null
  /\ ~results.completed
  /\ NextButtonShown
  /\ IF IsLastQuestion
     THEN LET module == GetModuleById(modules, quiz.id)
              updated == IF module # Null /\ results.score >= 70
                         THEN UpdateModule(dbModules, modules, quiz.id,
                                           [completed |-> TRUE, progress |-> 100])
                         ELSE [db |-> dbModules, store |-> modules]
          IN  /\ results' = [results EXCEPT !.completed = TRUE]
              /\ dbModules' = UpdateModuleProgress(updated.db, dbVocabulary, quizModuleId)
              /\ modules' = ModulesToArray(dbModules')
              /\ lastOp' = Op("nextQuestion", ScorePercentage(results), "completed")
              /\ UNCHANGED <<currentQuestionIndex, selectedAnswer, isAnswerCorrect,
                             hasAnswered>>
     ELSE /\ currentQuestionIndex' = currentQuestionIndex + 1
          /\ selectedAnswer' = NoAnswer
          /\ isAnswerCorrect' = FALSE
          /\ hasAnswered' = FALSE
          /\ lastOp' = Op("nextQuestion", 0, "next")
          /\ UNCHANGED <<results, dbModules, modules>>
  /\ UNCHANGED <<quizModuleId, quiz>>
  /\ UNCHANGED <<dbVocabulary, dbUserProgress, vocabularyItems,
                 currentModuleVocabulary, progress, today>>
  /\ UNCHANGED quizVars /\ UNCHANGED lessonVars /\ UNCHANGED restVars

\* the restart keeps the score
RestartedResults_KeepsScore ==
  Results(results.score, Len(quiz.questions), 0, 0, FALSE)

\* restartQuiz: the new results object
RestartedResults == Results(0, Len(quiz.questions), 0, 0, FALSE)

\* restartQuiz(), whenever a quiz is loaded: the refs are reset and
\* quizStore.resetQuiz() moves the store's cursor back to the first question
RestartQuiz ==
  /\ quiz # Null
  /\ currentQuestionIndex' = 0
  /\ selectedAnswer' = NoAnswer
  /\ isAnswerCorrect' = FALSE
  /\ hasAnswered' = FALSE
  /\ results' = RestartedResults
  /\ currentQuizIndex' = 0
  /\ quizResults' = << >>
  /\ lastOp' = Op("restartQuiz", results.score, "none")
  /\ UNCHANGED <<quizModuleId, quiz, dbQuizzes, nextQuizId, quizzes, quizError,
                 generations>>
  /\ UNCHANGED <<dbVocabulary, dbModules, dbUserProgress, modules, vocabularyItems,
                 currentModuleVocabulary, progress, today>>
  /\ UNCHANGED lessonVars /\ UNCHANGED restVars

Scores == {60, 70}

\* the state right after a page load (App.vue onMounted done) on the
\* persisted tables
LoadedStores(vocab, mods) ==
  /\ dbVocabulary = vocab
  /\ dbModules = mods
  /\ dbUserProgress = InitializeDatabase(<< >>)
  /\ dbQuizzes = << >>
  /\ nextQuizId = 1
  /\ modules = ModulesToArray(dbModules)
  /\ vocabularyItems = << >>
  /\ currentModuleVocabulary = << >>
  /\ progress = FetchUserProgress(dbUserProgress)
  /\ quizzes = << >>
  /\ quizError = NoError
  /\ currentQuizIndex = 0
  /\ quizResults = << >>
  /\ lessonModuleId = 0
  /\ activeWordIndex = 0
  /\ FlashcardsUnmounted
  /\ initCalls = NoCalls
  /\ generations = 0
  /\ lastOp = NoOp

Loaded(vocab, mods) == LoadedStores(vocab, mods) /\ QuizViewUnmounted

FreshModules == [m \in ModuleIds |-> Module(0, FALSE, 0)]

\* ------------------------------------------------------------------------
\* Spec: the store operations on a vocabulary that grows item by item
\* ------------------------------------------------------------------------
Init == Loaded(<< >>, FreshModules) /\ today = 0

Next ==
  \/ AppMounted
  \/ DashboardMounted
  \/ \E m \in ModuleIds :
       AddVocabularyItem(m, Pt(Len(dbVocabulary) + 1), Fr(Len(dbVocabulary) + 1))
  \/ \E id \in 1..MaxVocab : id <= Len(dbVocabulary) /\ StoreMarkAsLearned(id)
  \/ \E m \in ModuleIds : UpdateProgress(m)
  \/ \E m \in ModuleIds, score \in Scores : CompleteQuiz(m, score)

Spec == Init /\ [][Next]_vars

\* ------------------------------------------------------------------------
\* SpecLesson: the lesson page on a persisted module of unlearned words
\* ------------------------------------------------------------------------
\* n unlearned words of module 1, after `other` unlearned words of module 2
LessonPool(n, other) ==
  [i \in 1..(other + n) |->
     Vocabulary(i, IF i <= other THEN 2 ELSE 1, Pt(i), Fr(i), FALSE)]

LessonModules(n, other) ==
  [m \in ModuleIds |-> Module(0, FALSE, IF m = 1 THEN n ELSE other)]

InitLesson ==
  /\ \E n \in 1..MaxLessonWords, other \in 0..MaxOther :
       Loaded(LessonPool(n, other), LessonModules(n, other))
  /\ today = 0

NextLesson ==
  \/ DashboardMounted
  \/ \E m \in ModuleIds : LessonMounted(m)
  \/ \E i \in 0..(MaxLessonWords - 1) : SelectWord(i)
  \/ LessonMarkAsLearned

SpecLesson == InitLesson /\ [][NextLesson]_vars

\* ------------------------------------------------------------------------
\* SpecProgress: updateModuleProgress on drawn vocabulary snapshots
\* ------------------------------------------------------------------------
\* `other` words of module 2 (the first otherLearned learned), then `total`
\* words of module 1 (the first `learned` learned)
ProgressPool(total, learned, other, otherLearned) ==
  [i \in 1..(other + total) |->
     IF i <= other THEN Vocabulary(i, 2, Pt(i), Fr(i), i <= otherLearned)
     ELSE Vocabulary(i, 1, Pt(i), Fr(i), i - other <= learned)]

\* derived fields as a quiz completion or an earlier recomputation left them
StoredModules(total, other, stale) ==
  [m \in ModuleIds |->
     Module(IF stale THEN 100 ELSE 0, stale, IF m = 1 THEN total ELSE other)]

InitProgress ==
  /\ \E total \in 0..MaxWords, other \in 0..MaxOther, stale \in BOOLEAN :
       \E learned \in 0..total, otherLearned \in 0..other :
         Loaded(ProgressPool(total, learned, other, otherLearned),
                StoredModules(total, other, stale))
  /\ today = 0

NextProgress == \E m \in ModuleIds : UpdateProgress(m)

SpecProgress == InitProgress /\ [][NextProgress]_vars

\* ------------------------------------------------------------------------
\* SpecStreak: the study streak over the calendar
\* ------------------------------------------------------------------------
InitStreak == Loaded(<< >>, FreshModules) /\ today \in StartDays

NextStreak ==
  \/ UpdateStreak
  \/ DashboardMounted
  \/ Tick

SpecStreak == InitStreak /\ [][NextStreak]_vars

\* ------------------------------------------------------------------------
\* SpecQuiz: quiz generation on drawn module pools
\* ------------------------------------------------------------------------
\* the smallest pool a quiz is generated from
MinPool == 4

\* `other` words of module 2, then n words of module 1 with distinct
\* translations, except that word `twin` (when not 0) has the French
\* translation of the first word of module 1
QuizPool(n, twin, other) ==
  [i \in 1..(other + n) |->
     IF i <= other THEN Vocabulary(i, 2, Pt(i), Fr(i), FALSE)
     ELSE Vocabulary(i, 1, Pt(i), IF i - other = twin THEN Fr(other + 1) ELSE Fr(i), FALSE)]

InitQuiz ==
  /\ \E n \in 0..MaxPool, other \in (0..MaxOther) \cup {MinPool} :
       \E twin \in {t \in {0, 2} : t <= n} :
         \* both modules hold a pool a quiz can be generated from in one draw
         /\ other = MinPool => (n = MinPool /\ twin = 0)
         /\ Loaded(QuizPool(n, twin, other),
                   [m \in ModuleIds |-> Module(0, FALSE, IF m = 1 THEN n ELSE other)])
  /\ today = 0

NextQuiz == \E m \in ModuleIds : GenerateQuizForModule(m)

SpecQuiz == InitQuiz /\ [][NextQuiz]_vars

\* ------------------------------------------------------------------------
\* SpecSession: the handlers of the quiz page on a loaded quiz
\* ------------------------------------------------------------------------
\* The page reads a quiz as { id, questions }, each question with a
\* correctAnswer and the answers offered.  The quiz and the module of the
\* page are drawn here; every question offers its correct answer, the same
\* text in another letter case and a wrong answer.
QuizObjectIds == {1, 3}

SessionQuiz(id, count) ==
  [id |-> id,
   questions |-> [k \in 1..count |->
                    [correctAnswer |-> Fr(k),
                     answers |-> <<Fr(k), Upper(Fr(k)), Fr(k + 1)>>]]]

\* module 1 as its last recomputation left it, or as the completion of an
\* earlier quiz left it (completed, progress 100)
SessionModules(learned, byQuiz) ==
  [m \in ModuleIds |->
     IF m = 2 THEN Module(0, FALSE, 0)
     ELSE IF byQuiz THEN Module(100, TRUE, MinPool)
     ELSE Module(RoundedPercent(learned, MinPool), learned = MinPool, MinPool)]

InitSession ==
  /\ \E learned \in 0..MinPool, byQuiz \in BOOLEAN :
       LoadedStores(ProgressPool(MinPool, learned, 0, 0), SessionModules(learned, byQuiz))
  /\ \E id \in QuizObjectIds, count \in 1..MaxQuestions :
       /\ quiz = SessionQuiz(id, count)
       /\ results = Results(0, count, 0, 0, FALSE)
  /\ quizModuleId \in ModuleIds
  /\ currentQuestionIndex = 0
  /\ selectedAnswer = NoAnswer
  /\ isAnswerCorrect = FALSE
  /\ hasAnswered = FALSE
  /\ today = 0

NextSession ==
  \/ \E answer \in OfferedAnswers : SelectAnswer(answer)
  \/ NextQuestion
  \/ RestartQuiz

SpecSession == InitSession /\ [][NextSession]_vars

\* ------------------------------------------------------------------------
\* SpecReview: the dashboard's review list on drawn vocabularies
\* ------------------------------------------------------------------------
\* n words of module 1.  With gap = 0 every word is learned, otherwise every
\* gap-th word is not (none is with gap = 1).  A learned word was last reviewed on one of the days
\* 0..MaxReviewDay, or never (it was stored as learned without the date); the
\* days follow the word's position by `step` and `shift`, so that the drawn
\* lists come ascending, descending, with ties and unordered.
ReviewPool(n, gap, step, shift) ==
  [i \in 1..n |->
     LET learned == IF gap = 0 THEN TRUE ELSE i % gap # 0
         day == ((i * step + shift) % (MaxReviewDay + 2)) - 1
     IN  [Vocabulary(i, 1, Pt(i), Fr(i), learned)
            EXCEPT !.lastReviewed = IF learned THEN day ELSE NoDate]]

\* all learned; none learned; every third or every seventh word not learned
ReviewGaps == {0, 1, 3, 7}

InitReview ==
  /\ \E n \in 0..MaxReview, gap \in ReviewGaps, step \in 1..MaxReviewDay,
        shift \in 0..MaxReviewDay :
       Loaded(ReviewPool(n, gap, step, shift),
              [m \in ModuleIds |-> Module(0, FALSE, IF m = 1 THEN n ELSE 0)])
  /\ today = MaxReviewDay + 1

NextReview ==
  \/ DashboardMounted
  \/ \E id \in 1..Min(Len(dbVocabulary), MaxVocab) : StoreMarkAsLearned(id)

SpecReview == InitReview /\ [][NextReview]_vars

\* ------------------------------------------------------------------------
\* SpecInit: initializeDatabase on a new installation, called by the pages
\* open on the database; each call is two storage steps
\* ------------------------------------------------------------------------
\* the database as it is created (no userProgress record) and the stores
\* before the first page load has run
Installed ==
  /\ dbVocabulary = << >>
  /\ dbModules = FreshModules
  /\ dbUserProgress = << >>
  /\ dbQuizzes = << >>
  /\ nextQuizId = 1
  /\ modules = << >>
  /\ vocabularyItems = << >>
  /\ currentModuleVocabulary = << >>
  /\ progress = Null
  /\ quizzes = << >>
  /\ quizError = NoError
  /\ currentQuizIndex = 0
  /\ quizResults = << >>
  /\ QuizViewUnmounted
  /\ lessonModuleId = 0
  /\ activeWordIndex = 0
  /\ FlashcardsUnmounted
  /\ initCalls = NoCalls
  /\ generations = 0
  /\ lastOp = NoOp

InitInit == Installed /\ today \in StartDays

NextInit ==
  \/ \E caller \in Callers : InitializeDatabaseCount(caller)
  \/ \E caller \in Callers : InitializeDatabaseAdd(caller)
  \/ UpdateStreak
  \/ Tick

SpecInit == InitInit /\ [][NextInit]_vars

\* ------------------------------------------------------------------------
\* SpecTotals: the user totals on drawn vocabularies of two modules
\* ------------------------------------------------------------------------
InitTotals ==
  /\ \E total \in 0..MaxLessonWords, other \in 0..MaxOther :
       \E learned \in 0..total, otherLearned \in 0..other :
         Loaded(ProgressPool(total, learned, other, otherLearned),
                StoredModules(total, other, FALSE))
  /\ today = 0

NextTotals ==
  \/ DashboardMounted
  \/ \E id \in 1..(MaxLessonWords + MaxOther) : id <= Len(dbVocabulary) /\ StoreMarkAsLearned(id)
  \/ UpdateUserProgress

SpecTotals == InitTotals /\ [][NextTotals]_vars

\* ------------------------------------------------------------------------
\* SpecFailure: the store operations while the storage may fail
\* ------------------------------------------------------------------------
\* the storage calls of generateQuizForModule, markAsLearned, updateProgress
GenerateSteps == {"delete", "fetchVocabularyByModule", "bulkAdd", "fetchQuizzesByModule"}
MarkSteps == {"markWordAsLearned", "updateModuleProgress", "fetchModules", "fetchUserProgress"}
ProgressSteps == {"updateModuleProgress", "fetchModules"}

InitFailure ==
  /\ \E other \in 0..MaxOther :
       Loaded(QuizPool(MinPool, 0, other),
              [m \in ModuleIds |-> Module(0, FALSE, IF m = 1 THEN MinPool ELSE other)])
  /\ today = 0

NextFailure ==
  \/ DashboardMounted
  \/ \E m \in ModuleIds, failing \in {"delete", "bulkAdd"} : GenerateQuizFailing(m, failing)
  \/ \E id \in 1..MaxVocab : StoreMarkAsLearned(id)
  \/ \E id \in 1..MaxVocab, failing \in MarkSteps : StoreMarkAsLearnedFailing(id, failing)
  \/ \E m \in ModuleIds : UpdateProgress(m)
  \/ \E m \in ModuleIds, failing \in ProgressSteps : UpdateProgressFailing(m, failing)
  \/ \E m \in ModuleIds : UpdateModuleFailing(m)

SpecFailure == InitFailure /\ [][NextFailure]_vars

\* ------------------------------------------------------------------------
\* SpecRegenerate: quiz generation, repeated, while the storage may fail
\* ------------------------------------------------------------------------
NextRegenerate ==
  \E m \in ModuleIds, failing \in GenerateSteps \cup {"none"} :
    GenerateQuizFailing(m, failing)

SpecRegenerate == InitFailure /\ [][NextRegenerate]_vars

\* ------------------------------------------------------------------------
\* SpecFlashcards: the flashcard page on drawn vocabularies of two modules
\* ------------------------------------------------------------------------
InitFlashcards ==
  /\ \E total \in 0..MaxCards, other \in 0..MaxOther :
       \E learned \in 0..total, otherLearned \in 0..other :
         Loaded(ProgressPool(total, learned, other, otherLearned),
                StoredModules(total, other, FALSE))
  /\ today = 0

NextFlashcards ==
  \/ DashboardMounted
  \/ \E id \in 1..(MaxCards + MaxOther) : id <= Len(dbVocabulary) /\ StoreMarkAsLearned(id)
  \/ \E m \in ModuleIds : FlashcardsMounted(m)

SpecFlashcards == InitFlashcards /\ [][NextFlashcards]_vars

\* ------------------------------------------------------------------------
\* SpecStoreSession: the session operations of the quiz store on a
\* generated quiz
\* ------------------------------------------------------------------------
\* the stores after the quiz of module 1 was generated from a pool of MinPool
\* words and loaded, under one outcome of the random sorts
InitStoreSession ==
  /\ dbVocabulary = QuizPool(MinPool, 0, 0)
  /\ dbModules = [m \in ModuleIds |-> Module(0, FALSE, IF m = 1 THEN MinPool ELSE 0)]
  /\ dbUserProgress = InitializeDatabase(<< >>)
  /\ dbQuizzes = BulkAdd(<< >>, NewQuizzes(1, dbVocabulary, <<0, FALSE>>, <<0, FALSE>>), 1)
  /\ nextQuizId = Len(dbQuizzes) + 1
  /\ modules = ModulesToArray(dbModules)
  /\ vocabularyItems = << >>
  /\ currentModuleVocabulary = dbVocabulary
  /\ progress = FetchUserProgress(dbUserProgress)
  /\ quizzes = QuizzesOfModule(dbQuizzes, 1)
  /\ quizError = NoError
  /\ currentQuizIndex = 0
  /\ quizResults = << >>
  /\ QuizViewUnmounted
  /\ lessonModuleId = 0
  /\ activeWordIndex = 0
  /\ FlashcardsUnmounted
  /\ initCalls = NoCalls
  /\ generations = 1
  /\ today = 0
  /\ lastOp = NoOp

\* the ids a caller submits an answer for: the question the store points at,
\* among the leading MaxAnswered ones, and an id no question has
SubmittedIds ==
  (IF CurrentQuiz # Null /\ currentQuizIndex < MaxAnswered THEN {CurrentQuiz.id} ELSE {})
    \cup {0}

\* the answers a caller submits: the expected text, the same text in another
\* letter case, and another text
SubmittedAnswers(questionId) ==
  LET index == FindIndex(quizzes, questionId)
  IN  IF index = 0 THEN {Fr(0)}
      ELSE {quizzes[index].answer, Upper(quizzes[index].answer), Fr(0)}

NextStoreSession ==
  \/ \E questionId \in SubmittedIds :
       \E answer \in SubmittedAnswers(questionId) : SubmitAnswer(questionId, answer)
  \/ StoreNextQuestion
  \/ ResetQuiz

SpecStoreSession == InitStoreSession /\ [][NextStoreSession]_vars

\* ------------------------------------------------------------------------
\* Properties
\* ------------------------------------------------------------------------
TotalCount(m) ==
  Cardinality({i \in DOMAIN dbVocabulary : dbVocabulary[i].moduleId = m})

LearnedCount(m) ==
  Cardinality({i \in DOMAIN dbVocabulary :
                 dbVocabulary[i].moduleId = m /\ dbVocabulary[i].learned})

\* num / den rounded to the nearest integer, halves up
RoundHalfUp(num, den) ==
  CHOOSE p \in 0..100 : 2 * den * p - den <= 2 * num /\ 2 * num < 2 * den * p + den

\* round(100 * learned / total) over the items of module m, 0 without items
ExpectedProgress(m) ==
  IF TotalCount(m) = 0 THEN 0 ELSE RoundHalfUp(100 * LearnedCount(m), TotalCount(m))

\* C1: right after updateModuleProgress(m), module m is stored with
\* progress = round(100 * learned / total) over the items of m (0 when m has
\* no item) and with completed true exactly when that progress is 100.
C1_UpdateModuleProgress ==
  lastOp.op = "updateProgress" =>
    /\ dbModules[lastOp.arg].progress = ExpectedProgress(lastOp.arg)
    /\ dbModules[lastOp.arg].completed = (dbModules[lastOp.arg].progress = 100)

\* C2: once an operation has finished, every module's stored progress is
\* round(100 * learned / total) of its vocabulary items (0 without items).
C2_ProgressMatchesVocabulary ==
  \A m \in ModuleIds : dbModules[m].progress = ExpectedProgress(m)

\* C3: every module, in the table and in the module store, has
\* completed = (progress = 100).
C3_CompletedIffFull ==
  /\ \A m \in ModuleIds : dbModules[m].completed = (dbModules[m].progress = 100)
  /\ \A i \in DOMAIN modules : modules[i].completed = (modules[i].progress = 100)

\* a quiz completion has marked a module completed although not every word
\* of it is learned
C3_Witness ==
  /\ lastOp.op = "completeQuiz"
  /\ \E m \in ModuleIds :
       /\ dbModules[m].completed /\ dbModules[m].progress = 100
       /\ LearnedCount(m) < TotalCount(m)

\* C4: when the 4 words of a module that started unlearned at progress 0 have
\* all been marked learned on the lesson page, the module is stored with
\* progress 100 and completed.
C4_AllLearnedIsComplete ==
  \A m \in ModuleIds :
    (TotalCount(m) = 4 /\ LearnedCount(m) = 4) =>
      (dbModules[m].progress = 100 /\ dbModules[m].completed)

StreakOps == {"updateStreak", "dashboardMounted"}

\* C5: when incrementStreakDays finds a lastStudyDate that is the calendar
\* day before today, streakDays grows by exactly 1 and lastStudyDate becomes
\* today.
C5_StreakIncrementsAfterYesterday ==
  [][(/\ lastOp'.op \in StreakOps
      /\ dbUserProgress[1].lastStudyDate # NoDate
      /\ dbUserProgress[1].lastStudyDate = today - 1)
     => (/\ dbUserProgress'[1].streakDays = dbUserProgress[1].streakDays + 1
         /\ dbUserProgress'[1].lastStudyDate = today)]_vars

\* a streak of two days that ran over new year's eve into 1 January 2024
C5_Witness ==
  /\ lastOp.op = "updateStreak"
  /\ lastOp.arg = today - 1
  /\ DateOf(today) = [year |-> 2024, month |-> 0, date |-> 1]
  /\ dbUserProgress[1].streakDays = 2
  /\ dbUserProgress[1].lastStudyDate = today

\* C6: when incrementStreakDays finds a lastStudyDate that is unset, today,
\* or 2 or more days in the past, streakDays is unchanged and lastStudyDate
\* becomes today.
C6_StreakKeptOtherwise ==
  [][(/\ lastOp'.op \in StreakOps
      /\ \/ dbUserProgress[1].lastStudyDate = NoDate
         \/ dbUserProgress[1].lastStudyDate = today
         \/ dbUserProgress[1].lastStudyDate <= today - 2)
     => (/\ dbUserProgress'[1].streakDays = dbUserProgress[1].streakDays
         /\ dbUserProgress'[1].lastStudyDate = today)]_vars

\* a streak of 1 kept, not reset, by an update that comes after a gap
C6_Witness ==
  /\ lastOp.op = "updateStreak"
  /\ lastOp.arg # NoDate /\ lastOp.arg <= today - 2
  /\ dbUserProgress[1].streakDays = 1
  /\ dbUserProgress[1].lastStudyDate = today

\* the pool of the module the last generateQuizForModule call was made for
GeneratedPool == VocabularyOfModule(dbVocabulary, lastOp.arg)

\* the questions of a type stored for the module of the last call
StoredOfType(type) ==
  LET OfType(question) == question.moduleId = lastOp.arg /\ question.type = type
  IN  SelectSeq(dbQuizzes, OfType)

\* C7: generateQuizForModule on a module with fewer than 4 vocabulary items
\* fails (returns false with the insufficient-data error set for the caller)
\* and no question is stored for the module.
C7_TooFewItemsFails ==
  (lastOp.op = "generateQuizForModule" /\ Len(GeneratedPool) < 4)
    => /\ lastOp.result = "false"
       /\ quizError = "Not enough vocabulary items to generate a quiz"
       /\ QuizzesOfModule(dbQuizzes, lastOp.arg) = << >>

C7_Witness ==
  /\ lastOp = Op("generateQuizForModule", 1, "false")
  /\ Len(GeneratedPool) = 3
  /\ quizError = "Not enough vocabulary items to generate a quiz"

\* index of the item the i-th question of a window at `offset` is built from:
\* i + offset when the pool has that index, otherwise i (0-based)
WindowIndex(i, offset, n) == IF i + offset < n THEN i + offset ELSE i

\* C8: for every pool size n >= 4 generateQuizForModule succeeds, and its
\* min(3, n) fill-in-blank and min(2, n) audio questions are built from the
\* pool item at index i+5 (resp. i+8) when the pool has that index, otherwise
\* from the item at index i.
C8_WindowQuestionsFromPool ==
  (lastOp.op = "generateQuizForModule" /\ Len(GeneratedPool) >= 4)
    => LET n == Len(GeneratedPool)
           fills == StoredOfType("fill-in-blank")
           audios == StoredOfType("audio")
       IN  /\ lastOp.result = "ids"
           /\ Len(fills) = Min(3, n)
           /\ Len(audios) = Min(2, n)
           /\ \A i \in 0..(Len(fills) - 1) :
                fills[i + 1].answer
                  = GeneratedPool[WindowIndex(i, 5, n) + 1].portuguese
           /\ \A i \in 0..(Len(audios) - 1) :
                audios[i + 1].answer
                  = GeneratedPool[WindowIndex(i, 8, n) + 1].portuguese

\* C9 as stated: a pool of exactly 4 items produces exactly 1 multiple-choice
\* question, whose options list has length 4.
C9_PoolOfFourOneQuestion ==
  (lastOp.op = "generateQuizForModule" /\ Len(GeneratedPool) = 4)
    => LET choices == StoredOfType("multiple-choice")
       IN  /\ lastOp.result = "ids"
           /\ Len(choices) = 1
           /\ \A k \in 1..Len(choices) : Len(choices[k].options) = 4

\* C9 amended: a pool of exactly 4 items produces exactly 4 multiple-choice
\* questions, one per pool item, each with an options list of length 4.
C9_PoolOfFourFourQuestions ==
  (lastOp.op = "generateQuizForModule" /\ Len(GeneratedPool) = 4)
    => LET choices == StoredOfType("multiple-choice")
       IN  /\ lastOp.result = "ids"
           /\ Len(choices) = 4
           /\ \A k \in 1..4 :
                /\ choices[k].answer = GeneratedPool[k].french
                /\ Len(choices[k].options) = 4

C9_Witness ==
  /\ lastOp = Op("generateQuizForModule", 1, "ids")
  /\ Len(GeneratedPool) = 4
  /\ Len(StoredOfType("multiple-choice")) = 4
  /\ Len(quizzes) = 9

\* C10: for every pool of at least 4 items with distinct ids, every generated
\* multiple-choice question has exactly 4 options: the correct answer exactly
\* once, and 3 distractors that are the translations of 3 different pool
\* items other than the correct one.
C10_DistinctDistractors ==
  (lastOp.op = "generateQuizForModule" /\ Len(GeneratedPool) >= 4)
    => LET n == Len(GeneratedPool)
           choices == StoredOfType("multiple-choice")
       IN  \A k \in 1..Len(choices) :
             LET options == choices[k].options
                 right == {j \in 1..Len(options) : options[j] = choices[k].answer}
                 wrong == (1..Len(options)) \ right
             IN  /\ Len(options) = 4
                 /\ Cardinality(right) = 1
                 /\ \E from \in [wrong -> (1..n) \ {k}] :
                      /\ \A a, b \in wrong : from[a] = from[b] => a = b
                      /\ \A a \in wrong : options[a] = GeneratedPool[from[a]].french

\* the ids of the questions stored for a module
QuizIds(table, moduleId) ==
  {table[i].id : i \in {j \in DOMAIN table : table[j].moduleId = moduleId}}

\* C11: a successful generateQuizForModule(m) is a full replace: the stored
\* questions of m are then exactly the newly added ones (the ones the store
\* holds), none of the ids stored for m before the call remains, and the
\* stored questions of every other module are unchanged.
C11_RegenerationReplaces ==
  [][(lastOp'.op = "generateQuizForModule" /\ lastOp'.result = "ids")
       => LET m == lastOp'.arg
          IN  /\ QuizzesOfModule(dbQuizzes', m) = quizzes'
              /\ QuizIds(dbQuizzes', m) = nextQuizId..(nextQuizId' - 1)
              /\ QuizIds(dbQuizzes', m) \cap QuizIds(dbQuizzes, m) = {}
              /\ \A other \in ModuleIds \ {m} :
                   QuizzesOfModule(dbQuizzes', other) = QuizzesOfModule(dbQuizzes, other)]_vars

\* the second successful generation for module 1
C11_Witness ==
  /\ lastOp = Op("generateQuizForModule", 1, "ids")
  /\ generations = 2
  /\ QuizzesOfModule(dbQuizzes, 2) = << >>
  /\ Len(quizzes) = 9
  /\ QuizIds(dbQuizzes, 1) = 10..18

\* C12: an answer given to a question that was already answered is ignored:
\* score, correctAnswers, incorrectAnswers and the recorded selection stay as
\* they are.
C12_SecondAnswerIgnored ==
  [][(lastOp'.op = "selectAnswer" /\ hasAnswered)
       => /\ lastOp'.result = "ignored"
          /\ results' = results
          /\ selectedAnswer' = selectedAnswer
          /\ isAnswerCorrect' = isAnswerCorrect
          /\ hasAnswered']_vars

\* a second answer was given after a first, correct one
C12_Witness ==
  /\ lastOp = Op("selectAnswer", 0, "ignored")
  /\ hasAnswered
  /\ isAnswerCorrect
  /\ results.score = 10

C14_AdvanceOrComplete ==
  /\ [](quiz # Null => currentQuestionIndex \in 0..(Len(quiz.questions) - 1))
  /\ [][lastOp'.op = "nextQuestion"
          => IF currentQuestionIndex < Len(quiz.questions) - 1
             THEN /\ currentQuestionIndex' = currentQuestionIndex + 1
                  /\ selectedAnswer' = NoAnswer
                  /\ ~hasAnswered'
                  /\ ~isAnswerCorrect'
                  /\ ~results'.completed
             ELSE /\ results'.completed
                  /\ currentQuestionIndex' = currentQuestionIndex]_vars

\* the session completed on the last of several questions
C14_Witness ==
  /\ lastOp.op = "nextQuestion"
  /\ lastOp.result = "completed"
  /\ currentQuestionIndex = 2
  /\ Len(quiz.questions) = 3
  /\ results.completed

C18_RestartResets ==
  [][lastOp'.op = "restartQuiz"
       => /\ currentQuestionIndex' = 0
          /\ results'.score = 0
          /\ results'.correctAnswers = 0
          /\ results'.incorrectAnswers = 0
          /\ ~results'.completed
          /\ selectedAnswer' = NoAnswer
          /\ ~hasAnswered'
          /\ quiz' = quiz
          /\ quizzes' = quizzes
          /\ dbQuizzes' = dbQuizzes]_vars

\* a session with points was restarted
C18_Witness ==
  /\ lastOp.op = "restartQuiz"
  /\ lastOp.arg >= 20
  /\ results = Results(0, Len(quiz.questions), 0, 0, FALSE)
  /\ currentQuestionIndex = 0

\* the learned items of the store's vocabulary list
LearnedItems == {vocabularyItems[i] : i \in {j \in DOMAIN vocabularyItems : vocabularyItems[j].learned}}

\* item a is due for review strictly before item b
ReviewedBefore(a, b) ==
  \/ a.lastReviewed = NoDate /\ b.lastReviewed # NoDate
  \/ a.lastReviewed # NoDate /\ b.lastReviewed # NoDate /\ a.lastReviewed < b.lastReviewed

\* C19: in the output of getNextWordsToReview every item without
\* lastReviewed precedes every item that has one, and the items that have
\* one come in non-decreasing order of lastReviewed.
C19_ReviewQueueOrdered ==
  LET queue == GetNextWordsToReview(vocabularyItems)
  IN  \A i, j \in DOMAIN queue : i < j => ~ReviewedBefore(queue[j], queue[i])

\* the dashboard has loaded a vocabulary that was not in review order: the
\* queue holds items without a date and items with different dates
C19_Witness ==
  LET queue == GetNextWordsToReview(vocabularyItems)
  IN  /\ lastOp.op = "dashboardMounted"
      /\ Len(queue) = 10
      /\ queue[1].lastReviewed = NoDate
      /\ queue[2].lastReviewed = NoDate
      /\ queue[9].lastReviewed # NoDate
      /\ queue[9].lastReviewed < queue[10].lastReviewed
      /\ \E i, j \in DOMAIN vocabularyItems :
           i < j /\ vocabularyItems[i].learned /\ vocabularyItems[j].learned
                 /\ ReviewedBefore(vocabularyItems[j], vocabularyItems[i])

\* the entries of the list are learned items, each taken once, none of them
\* due after a learned item that was left out
LeastRecentlyReviewed(list) ==
  /\ \A i \in DOMAIN list : list[i] \in LearnedItems
  /\ \A i, j \in DOMAIN list : i # j => list[i].id # list[j].id
  /\ \A i \in DOMAIN list :
       \A item \in LearnedItems :
         (\A j \in DOMAIN list : list[j].id # item.id) => ~ReviewedBefore(item, list[i])

\* C20 as stated: the dashboard's review list holds only learned items, has
\* min(10, number of learned items) entries, the least recently reviewed
\* ones in queue order, and is empty when no item is learned.
C20_DashboardListOfTen ==
  /\ Len(WordsToReview) = Min(10, Cardinality(LearnedItems))
  /\ LeastRecentlyReviewed(WordsToReview)
  /\ \A i, j \in DOMAIN WordsToReview :
       i < j => ~ReviewedBefore(WordsToReview[j], WordsToReview[i])

\* C20 amended: the dashboard's review list holds only learned items, has
\* min(5, number of learned items) entries, the least recently reviewed ones
\* in queue order (it is the head of the store's queue, which has
\* min(10, number of learned items) entries), and is empty when no item is
\* learned.
C20_DashboardListOfFive ==
  /\ Len(WordsToReview) = Min(5, Cardinality(LearnedItems))
  /\ Len(GetNextWordsToReview(vocabularyItems)) = Min(10, Cardinality(LearnedItems))
  /\ LeastRecentlyReviewed(WordsToReview)
  /\ LeastRecentlyReviewed(GetNextWordsToReview(vocabularyItems))
  /\ WordsToReview = SubSeq(GetNextWordsToReview(vocabularyItems), 1, Len(WordsToReview))
  /\ \A i, j \in DOMAIN WordsToReview :
       i < j => ~ReviewedBefore(WordsToReview[j], WordsToReview[i])

\* the dashboard has loaded more learned items than either limit, next to
\* items that are not learned
C20_Witness ==
  /\ lastOp.op = "dashboardMounted"
  /\ Cardinality(LearnedItems) > 10
  /\ Len(vocabularyItems) > Cardinality(LearnedItems)
  /\ Len(WordsToReview) = 5

\* C21: UserProgress is a singleton created lazily: the table never holds more
\* than one record, it holds exactly one once an initializeDatabase call has
\* finished (whether the calls ran one after the other or with their storage
\* steps overlapping), the record is created with totalLearned, totalReviewed,
\* totalStudyTime and streakDays 0 and no lastStudyDate, and a call that finds
\* a record leaves the table unchanged.
C21_SingletonUserProgress ==
  /\ [](Len(dbUserProgress) <= 1)
  /\ []((lastOp.op = "initializeDatabase" /\ lastOp.result = "done")
          => Len(dbUserProgress) = 1)
  /\ [][(lastOp'.op = "initializeDatabase" /\ lastOp'.result = "done")
          => IF Len(dbUserProgress) = 0
             THEN dbUserProgress' = <<UserProgress(0, 0, NoDate)>>
             ELSE dbUserProgress' = dbUserProgress]_vars

\* the stored vocabulary items that are learned, over all modules
StoredLearned == {i \in DOMAIN dbVocabulary : dbVocabulary[i].learned}

C23_StorageFailurePropagated ==
  /\ [](lastOp.failing # "none" => lastOp.result = "StoreUnavailableError")
  /\ [][/\ lastOp'.failing \in {"markWordAsLearned"} => dbVocabulary' = dbVocabulary
        /\ lastOp'.failing \in {"updateModuleProgress", "update"} => dbModules' = dbModules
        /\ lastOp'.failing \in {"delete"} => dbQuizzes' = dbQuizzes
        /\ lastOp'.failing \in {"bulkAdd"} => nextQuizId' = nextQuizId]_vars

\* C24: for every pool of n >= 4 items a generated quiz consists of exactly
\* min(5, n) multiple-choice questions (the i-th asks for the translation of
\* the i-th leading pool item), then min(3, n) fill-in-blank questions, then
\* min(2, n) audio questions; every question carries the module's id and
\* completed = false, and only the multiple-choice questions have an options
\* list.
C24_QuizComposition ==
  (lastOp.op = "generateQuizForModule" /\ Len(GeneratedPool) >= 4)
    => LET n == Len(GeneratedPool)
           stored == QuizzesOfModule(dbQuizzes, lastOp.arg)
           choices == Min(5, n)
           fills == Min(3, n)
           audios == Min(2, n)
       IN  /\ lastOp.result = "ids"
           /\ Len(stored) = choices + fills + audios
           /\ \A k \in 1..Len(stored) :
                /\ stored[k].moduleId = lastOp.arg
                /\ stored[k].completed = FALSE
                /\ stored[k].type = IF k <= choices THEN "multiple-choice"
                                    ELSE IF k <= choices + fills THEN "fill-in-blank"
                                    ELSE "audio"
                /\ ("options" \in DOMAIN stored[k]) = (k <= choices)
                /\ k <= choices =>
                     /\ stored[k].question = <<"Traduisez", GeneratedPool[k].portuguese>>
                     /\ stored[k].answer = GeneratedPool[k].french

\* the ids of the stored items of module m that are not learned or whose
\* nextReview is due
EligibleCards(m) ==
  {dbVocabulary[i].id : i \in {j \in DOMAIN dbVocabulary :
       dbVocabulary[j].moduleId = m /\ NeedsReview(dbVocabulary[j])}}

\* C25: after the flashcard session has loaded for a module, its card
\* sequence is a permutation of exactly the module's items that are not
\* learned or whose nextReview is due: none is missing, none is added or
\* duplicated, and the session total is the number of eligible items.
C25_FlashcardsArePermutation ==
  lastOp.op = "flashcardsMounted"
    => /\ {flashcardVocabulary[k].id : k \in DOMAIN flashcardVocabulary}
            = EligibleCards(lastOp.arg)
       /\ Len(flashcardVocabulary) = Cardinality(EligibleCards(lastOp.arg))
       /\ reviewSession.total = Cardinality(EligibleCards(lastOp.arg))
       /\ reviewSession.remaining = reviewSession.total

\* the questions of the session answered so far
AnsweredSoFar == currentQuestionIndex + (IF hasAnswered THEN 1 ELSE 0)

\* C26: in every state of a quiz session driven through the page's controls,
\* score = 10 * correctAnswers, and correctAnswers + incorrectAnswers is the
\* number of questions answered so far, at most the question count; the
\* session advances only from an answered question, so a completed session
\* has correctAnswers + incorrectAnswers equal to the question count.
C26_SessionCounters ==
  /\ [](quiz # Null =>
          /\ results.score = 10 * results.correctAnswers
          /\ results.correctAnswers + results.incorrectAnswers = AnsweredSoFar
          /\ AnsweredSoFar <= Len(quiz.questions)
          /\ results.completed =>
               results.correctAnswers + results.incorrectAnswers = Len(quiz.questions))
  /\ [][lastOp'.op = "nextQuestion" => hasAnswered]_vars

\* a session of three questions was completed with right and wrong answers
C26_Witness ==
  /\ lastOp.op = "nextQuestion"
  /\ results.completed
  /\ Len(quiz.questions) = 3
  /\ results.correctAnswers = 2
  /\ results.incorrectAnswers = 1
  /\ results.score = 20

\* C27: after markAsLearned(id) has returned true, the user progress the
\* application holds has totalLearned equal to the number of stored vocabulary
\* items with learned = true.
C27_MarkAsLearnedReconcilesTotal ==
  (lastOp.op = "markAsLearned" /\ lastOp.result = "true")
    => /\ progress # Null
       /\ progress.totalLearned = Cardinality(StoredLearned)

\* C28: markAsLearned(id) is all-or-nothing.  When it returns false (the id
\* missing from the store's vocabulary list included), the stored learned flag
\* and lastReviewed of the item and the stored progress of every module are as
\* before the call; when it returns true, the item is stored as learned and
\* the progress of its module has been recomputed.
C28_MarkAsLearnedAllOrNothing ==
  [][lastOp'.op = "markAsLearned"
       => LET id == lastOp'.arg
          IN  IF lastOp'.result = "false"
              THEN /\ dbVocabulary' = dbVocabulary
                   /\ dbModules' = dbModules
              ELSE /\ dbVocabulary'[id].learned
                   /\ dbModules'[dbVocabulary[id].moduleId].progress
                        = RoundedPercent(
                            Cardinality({i \in DOMAIN dbVocabulary' :
                              /\ dbVocabulary'[i].moduleId = dbVocabulary[id].moduleId
                              /\ dbVocabulary'[i].learned}),
                            Cardinality({i \in DOMAIN dbVocabulary' :
                              dbVocabulary'[i].moduleId = dbVocabulary[id].moduleId}))]_vars

\* C29: a generateQuizForModule call that fails (fewer than 4 items, or an
\* error while the questions are built or saved) leaves the stored questions
\* of the module as they were, so that they still match the store's question
\* list if they matched it before.
C29_FailedGenerationKeepsQuestions ==
  [][(lastOp'.op = "generateQuizForModule" /\ lastOp'.result # "ids")
       => LET m == lastOp'.arg
          IN  /\ QuizzesOfModule(dbQuizzes', m) = QuizzesOfModule(dbQuizzes, m)
              /\ QuizzesOfModule(dbQuizzes, m) = quizzes
                   => QuizzesOfModule(dbQuizzes', m) = quizzes']_vars

\* the recorded results that are correct
CorrectResults == {i \in DOMAIN quizResults : quizResults[i].correct}

\* C30: in the quiz store, after any sequence of submitAnswer, nextQuestion
\* and resetQuiz calls, each question has at most one recorded result, so
\* isQuizComplete holds only when every question of the loaded quiz has been
\* answered; getCurrentScore is the percentage of correct results among the
\* recorded ones (an integer in 0..100, 0 when there is none); submitAnswer
\* for an unknown question id records nothing and returns false.
C30_StoreSessionResults ==
  /\ [](\A i, j \in DOMAIN quizResults :
          i # j => quizResults[i].questionId # quizResults[j].questionId)
  /\ [](IsQuizComplete =>
          \A k \in DOMAIN quizzes :
            \E i \in DOMAIN quizResults : quizResults[i].questionId = quizzes[k].id)
  /\ [](/\ GetCurrentScore \in 0..100
        /\ GetCurrentScore = IF Len(quizResults) = 0 THEN 0
                             ELSE RoundHalfUp(100 * Cardinality(CorrectResults),
                                              Len(quizResults)))
  /\ [][(lastOp'.op = "submitAnswer" /\ FindIndex(quizzes, lastOp'.arg) = 0)
          => (quizResults' = quizResults /\ lastOp'.result = "false")]_vars

====
